---- MODULE Spec2Model ----
(***************************************************************************)
(* DuoMotorController (MotorControllerPI/DuoMotorController/main.c):       *)
(* PI speed control of two VNH2SP30 motor drivers on an ATmega328P.        *)
(*                                                                         *)
(* The model is the cooperative main loop of main() cut at every access to *)
(* a variable an interrupt handler also touches, plus the five interrupt   *)
(* handlers, each run to completion.                                       *)
(*                                                                         *)
(* Three specifications share the variables:                               *)
(*   Spec     - command state machine: main loop, TIMER2_COMPA, USART_RX   *)
(*   SpecTick - tick extension: TIMER1 counter, TIMER1_OVF, INT0, INT1     *)
(*   SpecRps  - do_update_rps applied to latched tick pairs                *)
(***************************************************************************)
EXTENDS Integers, Sequences, FiniteSets, TLC

VARIABLES
    \* ---- main.c globals
    g_flag_pid,                 \* main.c:222
    g_command_timer_pids,       \* main.c:227
    g_flag_command_received,    \* main.c:231
    g_command_buffer,           \* main.c:235 (int8_t)
    g_flag_command_running,     \* main.c:238
    pulse_tick_counter_high_nibble, \* main.c:214 (uint16_t)
    setpoint,                   \* g_motor_N.setpoint, main.c:92
    timer_value,                \* g_motor_N.hall_encoder.timer_value
    buffered_timer_value,       \* g_motor_N.hall_encoder.buffered_timer_value
    current_rps,                \* g_motor_N.hall_encoder.current_rps
    is_measurement_ready,       \* g_motor_N.hall_encoder.is_measurement_ready
    pid_accumulated,            \* g_motor_N.pid: accumulated history is non-zero
    \* ---- peripheral registers
    OCR0A, OCR0B,               \* PWM compare registers (motor 2, motor 1)
    dir,                        \* <<PD7, PB1, PB0, PB2>> = M1 INA, M1 INB, M2 INA, M2 INB
    RXC0, UDR0,                 \* USART receive-complete flag and data register
    TCNT1, TOV1,                \* TIMER1 counter and its overflow flag
    INTF,                       \* INTF0 / INTF1 external interrupt flags, per motor
    \* ---- main-loop position and registers
    pc,                         \* position of main() between two shared accesses
    cmd_byte,                   \* <<operand of switch(g_command_buffer)>> in this pass, else <<>>
    mask_tmp,                   \* g_command_buffer as read by line 778, 0 once written back
    tmr_rd,                     \* part of g_command_timer_pids already read by 881
    ticks,                      \* local 'ticks' of do_update_rps
    enc_rd,                     \* latch field do_update_rps has read first (606)
    input,                      \* <<input_1, input_2>> of do_advance_pids (724-725)
    n_adv,                      \* history: calls of do_advance_pids since running was set
    sample_taken                \* a TIMER2_COMPA interrupt ran since main's last step

vars == << g_flag_pid, g_command_timer_pids, g_flag_command_received,
           g_command_buffer, g_flag_command_running,
           pulse_tick_counter_high_nibble, setpoint, timer_value,
           buffered_timer_value, current_rps, is_measurement_ready,
           pid_accumulated, OCR0A, OCR0B, dir, RXC0, UDR0, TCNT1, TOV1, INTF,
           pc, cmd_byte, mask_tmp, tmr_rd, ticks, enc_rd, input, n_adv,
           sample_taken >>

cmdVars == << g_flag_pid, g_command_timer_pids, g_flag_command_received,
              g_command_buffer, g_flag_command_running, setpoint,
              pid_accumulated, OCR0A, OCR0B, dir, RXC0, UDR0,
              pc, cmd_byte, mask_tmp, tmr_rd, input, n_adv, sample_taken >>

encVars == << pulse_tick_counter_high_nibble, timer_value,
              buffered_timer_value, current_rps, is_measurement_ready,
              TCNT1, TOV1, INTF, ticks, enc_rd >>

Motors == {1, 2}

(***************************************************************************)
(* Program constants                                                       *)
(***************************************************************************)
command_duration_pids == 376
motor_on_rps == 1
F_CPU == 16000000
PULSES_PER_ROTATION == 245
RPS_UPPER_DISCARD_LIMIT == 10
\* RPS_ALPHA = 0.5f as a fraction
RPS_ALPHA_NUM == 1
RPS_ALPHA_DEN == 2
PID_OUTPUT_MIN == 0
PID_OUTPUT_MAX == 95
OCR_OFF == 255

\* float values of revolutions per second are kept in fixed point, FixOne
\* units per 1.0
FixOne == 2 ^ 14

U8(x) == x % 256
U16(x) == x % 65536
\* (int8_t)x for x a byte 0..255
ToInt8(x) == IF x >= 128 THEN x - 256 ELSE x
\* x & 0x7F for x an int8_t promoted to int (two's complement)
Mask7F(x) == x % 128

(***************************************************************************)
(* uint32_t values are pairs <<high 16 bits, low 16 bits>>.                *)
(***************************************************************************)
UINT32_MAX == <<65535, 65535>>

Lt32(a, b) == a[1] < b[1] \/ (a[1] = b[1] /\ a[2] < b[2])

\* a - b in uint32_t arithmetic
Sub32(a, b) ==
    LET lo == a[2] - b[2]
        borrow == IF lo < 0 THEN 1 ELSE 0
    IN  << U16(a[1] - b[1] - borrow), U16(lo) >>

\* a + b in uint32_t arithmetic
Add32(a, b) ==
    LET lo == a[2] + b[2]
        carry == IF lo >= 65536 THEN 1 ELSE 0
    IN  << U16(a[1] + b[1] + carry), U16(lo) >>

\* spacing of the floats around a value whose high half is hi: 1 below 2^24,
\* then doubling with every binary order of magnitude
RECURSIVE Ulp(_)
Ulp(hi) == IF hi < 256 THEN 1 ELSE 2 * Ulp(hi \div 2)

\* (float)x for x a uint32_t: round to nearest, ties to even, 24-bit
\* significand.  The result is integral; its high half reaches 65536 when
\* the value rounds up to 2^32.
ToFloat(x) ==
    LET u == Ulp(x[1])
        q == x[2] \div u
        r == x[2] % u
        up == (2 * r > u) \/ (2 * r = u /\ q % 2 = 1)
        lo == (IF up THEN q + 1 ELSE q) * u
    IN  IF lo >= 65536 THEN << x[1] + 1, lo - 65536 >> ELSE << x[1], lo >>

(***************************************************************************)
(* command_e and the classification switch of do_parse_command             *)
(***************************************************************************)
Classify(b) ==
    CASE b = 119 -> "COMMAND_FORWARD"
      [] b = 115 -> "COMMAND_BACKWARD"
      [] b = 97  -> "COMMAND_LEFT"
      [] b = 100 -> "COMMAND_RIGHT"
      [] b = 120 -> "COMMAND_STOP"
      [] OTHER   -> "COMMAND_UNKNOWN"

\* set_motor_direction with the default case driving the stop pattern
set_motor_direction_unknown_stops(command, d) ==
    CASE command = "COMMAND_FORWARD"  -> <<1, 0, 0, 1>>
      [] command = "COMMAND_BACKWARD" -> <<0, 1, 1, 0>>
      [] command = "COMMAND_LEFT"     -> <<1, 0, 1, 0>>
      [] command = "COMMAND_RIGHT"    -> <<0, 1, 0, 1>>
      [] OTHER                        -> <<0, 0, 0, 0>>

\* set_motor_direction: new <<PD7, PB1, PB0, PB2>> from the old pins
set_motor_direction(command, d) ==
    CASE command = "COMMAND_FORWARD"  -> <<1, 0, 0, 1>>
      [] command = "COMMAND_BACKWARD" -> <<0, 1, 1, 0>>
      [] command = "COMMAND_LEFT"     -> <<1, 0, 1, 0>>
      [] command = "COMMAND_RIGHT"    -> <<0, 1, 0, 1>>
      [] command = "COMMAND_STOP"     -> <<0, 0, 0, 0>>
      [] OTHER                        -> d

\* calculate_oc_value_from_dc without the inversion 100 - duty_cycle
calculate_oc_value_from_dc_not_inverted(duty_cycle) ==
    U8((255 * duty_cycle) \div 100)

\* calculate_oc_value_from_dc: uint32_t arithmetic, result cast to uint8_t.
\* 255 * (100 - duty_cycle) stays below 2^32 for every duty_cycle <= 100.
calculate_oc_value_from_dc(duty_cycle) ==
    U8((255 * (100 - duty_cycle)) \div 100)

(***************************************************************************)
(* PI collaborator (pid.h): PID_Advance returns a duty in                  *)
(* [PID_OUTPUT_MIN, PID_OUTPUT_MAX] and accumulates the error;             *)
(* PID_ClearAccumulatedValues clears the accumulated history.              *)
(***************************************************************************)
PidOutputs == {PID_OUTPUT_MIN, PID_OUTPUT_MAX}
\* the history variable n_adv counts calls of do_advance_pids up to AdvCap
AdvCap == 3

PID_Advance(acc, error) == acc \/ error # 0

PID_ClearAccumulatedValues(acc) == FALSE

(***************************************************************************)
(* Bytes the serial line delivers: 'w', 'w' | 0x80, 's', 'q'               *)
(***************************************************************************)
RxBytes == {119, 247, 115, 113}

(***************************************************************************)
(* State after setup (main.c:829-852): statics are zero, the compare       *)
(* registers and port pins hold their reset value 0, PID_Init has run.     *)
(***************************************************************************)
InitCmd ==
    /\ g_flag_pid = 0
    /\ g_command_timer_pids = 0
    /\ g_flag_command_received = 0
    /\ g_command_buffer = 0
    /\ g_flag_command_running = 0
    /\ setpoint = [m \in Motors |-> 0]
    /\ pid_accumulated = [m \in Motors |-> FALSE]
    /\ OCR0A = 0
    /\ OCR0B = 0
    /\ dir = <<0, 0, 0, 0>>
    /\ RXC0 = FALSE
    /\ UDR0 = 0
    /\ pc = "enc1"
    /\ cmd_byte = <<>>
    /\ mask_tmp = 0
    /\ tmr_rd = <<>>
    /\ input = <<0, 0>>
    /\ n_adv = 0
    /\ sample_taken = FALSE

InitEnc ==
    /\ pulse_tick_counter_high_nibble = 0
    /\ timer_value = [m \in Motors |-> <<0, 0>>]
    /\ buffered_timer_value = [m \in Motors |-> <<0, 0>>]
    /\ current_rps = [m \in Motors |-> 0]
    /\ is_measurement_ready = [m \in Motors |-> 0]
    /\ TCNT1 = 0
    /\ TOV1 = FALSE
    /\ INTF = [m \in Motors |-> FALSE]
    /\ ticks = <<0, 0>>
    /\ enc_rd = <<>>

Init == InitCmd /\ InitEnc

(***************************************************************************)
(* Main loop, main.c:854-887.  Every step of main ends the window in which *)
(* one sample interrupt may have been taken.                               *)
(***************************************************************************)
Goto(l) == pc' = l /\ sample_taken' = FALSE

\* main.c:856 / 862: if (g_motor_N.hall_encoder.is_measurement_ready)
M_enc_chk(m) ==
    /\ pc = (IF m = 1 THEN "enc1" ELSE "enc2")
    /\ IF is_measurement_ready[m] # 0
         THEN Goto(IF m = 1 THEN "rps1" ELSE "rps2")
         ELSE Goto(IF m = 1 THEN "enc2" ELSE "pid_chk")
    /\ cmd_byte' = (IF m = 1 THEN <<>> ELSE cmd_byte)
    /\ UNCHANGED << g_flag_pid, g_command_timer_pids, g_flag_command_received,
                    g_command_buffer, g_flag_command_running, setpoint,
                    pid_accumulated, OCR0A, OCR0B, dir, RXC0, UDR0,
                    mask_tmp, tmr_rd,
                    input, n_adv >>
    /\ UNCHANGED encVars

\* M_pid_chk with the test of g_flag_command_running left out
M_pid_chk_ignores_running ==
    /\ pc = "pid_chk"
    /\ IF g_flag_pid # 0
         THEN Goto("pid_adv")
         ELSE Goto("cmd_chk")
    /\ UNCHANGED << g_flag_pid, g_command_timer_pids, g_flag_command_received,
                    g_command_buffer, g_flag_command_running, setpoint,
                    pid_accumulated, OCR0A, OCR0B, dir, RXC0, UDR0,
                    cmd_byte, mask_tmp, tmr_rd, input, n_adv >>
    /\ UNCHANGED encVars

\* main.c:868: if (g_flag_pid && g_flag_command_running)
M_pid_chk ==
    /\ pc = "pid_chk"
    /\ IF g_flag_pid # 0 /\ g_flag_command_running # 0
         THEN Goto("pid_adv")
         ELSE Goto("cmd_chk")
    /\ UNCHANGED << g_flag_pid, g_command_timer_pids, g_flag_command_received,
                    g_command_buffer, g_flag_command_running, setpoint,
                    pid_accumulated, OCR0A, OCR0B, dir, RXC0, UDR0,
                    cmd_byte, mask_tmp, tmr_rd,
                    input, n_adv >>
    /\ UNCHANGED encVars

\* main.c:870, do_advance_pids (716-736).  TCNT0 = 0 restarts the PWM
\* counter, which nothing in the program reads.
\* The duties PID_Advance returns are drawn from outputs.
advance_pids(outputs) ==
    /\ pc = "pid_adv"
    /\ \E input_1 \in outputs, input_2 \in outputs :
         /\ input' = <<input_1, input_2>>
         /\ OCR0B' = calculate_oc_value_from_dc(input_1)
         /\ OCR0A' = calculate_oc_value_from_dc(input_2)
    /\ pid_accumulated' =
         [m \in Motors |->
            PID_Advance(pid_accumulated[m], setpoint[m] - current_rps[m])]
    /\ n_adv' = (IF n_adv < AdvCap THEN n_adv + 1 ELSE n_adv)
    /\ Goto("pid_clr")
    /\ UNCHANGED << g_flag_pid, g_command_timer_pids, g_flag_command_received,
                    g_command_buffer, g_flag_command_running, setpoint,
                    dir, RXC0, UDR0, cmd_byte, mask_tmp, tmr_rd >>
    /\ UNCHANGED encVars

do_advance_pids == advance_pids(PidOutputs)

\* main.c:871: g_flag_pid = 0
M_pid_clr ==
    /\ pc = "pid_clr"
    /\ g_flag_pid' = 0
    /\ input' = <<0, 0>>
    /\ Goto("cmd_chk")
    /\ UNCHANGED << g_command_timer_pids, g_flag_command_received,
                    g_command_buffer, g_flag_command_running, setpoint,
                    pid_accumulated, OCR0A, OCR0B, dir, RXC0, UDR0,
                    cmd_byte, mask_tmp, tmr_rd, n_adv >>
    /\ UNCHANGED encVars

\* main.c:874: if (g_flag_command_received)
M_cmd_chk ==
    /\ pc = "cmd_chk"
    /\ IF g_flag_command_received # 0
         THEN Goto("parse_rd")
         ELSE Goto("done_chk")
    /\ UNCHANGED << g_flag_pid, g_command_timer_pids, g_flag_command_received,
                    g_command_buffer, g_flag_command_running, setpoint,
                    pid_accumulated, OCR0A, OCR0B, dir, RXC0, UDR0,
                    cmd_byte, mask_tmp, tmr_rd,
                    input, n_adv >>
    /\ UNCHANGED encVars

\* do_parse_command, main.c:766-778 up to the read of g_command_buffer
P_read ==
    /\ pc = "parse_rd"
    /\ IF g_flag_command_running # 0
         THEN /\ Goto("cmd_clr")
              /\ UNCHANGED << setpoint, mask_tmp >>
         ELSE /\ setpoint' = [m \in Motors |-> motor_on_rps * FixOne]
              /\ mask_tmp' = g_command_buffer
              /\ Goto("parse_mask")
    /\ UNCHANGED << g_flag_pid, g_command_timer_pids, g_flag_command_received,
                    g_command_buffer, g_flag_command_running,
                    pid_accumulated, OCR0A, OCR0B, dir, RXC0, UDR0,
                    cmd_byte, tmr_rd,
                    input, n_adv >>
    /\ UNCHANGED encVars

\* main.c:778: the write of g_command_buffer = <value read> & 0x7F
P_mask ==
    /\ pc = "parse_mask"
    /\ g_command_buffer' = Mask7F(mask_tmp)
    /\ mask_tmp' = 0
    /\ Goto("parse_sw")
    /\ UNCHANGED << g_flag_pid, g_command_timer_pids, g_flag_command_received,
                    g_flag_command_running, setpoint,
                    pid_accumulated, OCR0A, OCR0B, dir, RXC0, UDR0,
                    cmd_byte, tmr_rd,
                    input, n_adv >>
    /\ UNCHANGED encVars

\* main.c:780: switch (g_command_buffer) reads the buffer again
P_switch ==
    /\ pc = "parse_sw"
    /\ cmd_byte' = <<g_command_buffer>>
    /\ Goto("parse_run")
    /\ UNCHANGED << g_flag_pid, g_command_timer_pids, g_flag_command_received,
                    g_command_buffer, g_flag_command_running, setpoint,
                    pid_accumulated, OCR0A, OCR0B, dir, RXC0, UDR0,
                    mask_tmp, tmr_rd,
                    input, n_adv >>
    /\ UNCHANGED encVars

\* main.c:807-809: set_motor_direction(command); g_flag_command_running = 1
P_run ==
    /\ pc = "parse_run"
    /\ dir' = set_motor_direction(Classify(cmd_byte[1]), dir)
    /\ g_flag_command_running' = 1
    /\ n_adv' = 0
    /\ Goto("cmd_clr")
    /\ UNCHANGED << g_flag_pid, g_command_timer_pids, g_flag_command_received,
                    g_command_buffer, setpoint,
                    pid_accumulated, OCR0A, OCR0B, RXC0, UDR0,
                    cmd_byte, mask_tmp, tmr_rd, input >>
    /\ UNCHANGED encVars


\* M_cmd_clr with the clearing of g_flag_command_received forgotten
M_cmd_clr_flag_left_set ==
    /\ pc = "cmd_clr"
    /\ Goto("done_chk")
    /\ UNCHANGED << g_flag_pid, g_command_timer_pids, g_flag_command_received,
                    g_command_buffer, g_flag_command_running, setpoint,
                    pid_accumulated, OCR0A, OCR0B, dir, RXC0, UDR0,
                    cmd_byte, mask_tmp, tmr_rd,
                    input, n_adv >>
    /\ UNCHANGED encVars

\* main.c:878: g_flag_command_received = 0
M_cmd_clr ==
    /\ pc = "cmd_clr"
    /\ g_flag_command_received' = 0
    /\ Goto("done_chk")
    /\ UNCHANGED << g_flag_pid, g_command_timer_pids,
                    g_command_buffer, g_flag_command_running, setpoint,
                    pid_accumulated, OCR0A, OCR0B, dir, RXC0, UDR0,
                    cmd_byte, mask_tmp, tmr_rd,
                    input, n_adv >>
    /\ UNCHANGED encVars

(***************************************************************************)
(* main.c:881: g_flag_command_running && g_command_timer_pids >=           *)
(* command_duration_pids.  The 32-bit counter is read one byte at a time   *)
(* with interrupts enabled; the order of the byte reads is the compiler's. *)
(* The counter stays below 2^16, so bytes 2 and 3 always read 0: the read  *)
(* is cut between byte 0 and the rest.                                     *)
(***************************************************************************)
LoByte(x) == x % 256
HiBytes(x) == x \div 256

M_done_chk ==
    /\ pc = "done_chk"
    /\ IF g_flag_command_running # 0
         THEN /\ \E order \in {"lo", "hi"} :
                   tmr_rd' = << order,
                                IF order = "lo"
                                  THEN LoByte(g_command_timer_pids)
                                  ELSE HiBytes(g_command_timer_pids) >>
              /\ Goto("done_rd2")
         ELSE /\ tmr_rd' = <<>>
              /\ Goto("enc1")
    /\ UNCHANGED << g_flag_pid, g_command_timer_pids, g_flag_command_received,
                    g_command_buffer, g_flag_command_running, setpoint,
                    pid_accumulated, OCR0A, OCR0B, dir, RXC0, UDR0,
                    cmd_byte, mask_tmp,
                    input, n_adv >>
    /\ UNCHANGED encVars

\* the value the comparison of line 881 sees
TimerAsRead ==
    IF tmr_rd[1] = "lo"
      THEN HiBytes(g_command_timer_pids) * 256 + tmr_rd[2]
      ELSE tmr_rd[2] * 256 + LoByte(g_command_timer_pids)

M_done_rd2 ==
    /\ pc = "done_rd2"
    /\ IF TimerAsRead >= command_duration_pids
         THEN Goto("complete")
         ELSE Goto("enc1")
    /\ tmr_rd' = <<>>
    /\ UNCHANGED << g_flag_pid, g_command_timer_pids, g_flag_command_received,
                    g_command_buffer, g_flag_command_running, setpoint,
                    pid_accumulated, OCR0A, OCR0B, dir, RXC0, UDR0,
                    cmd_byte, mask_tmp,
                    input, n_adv >>
    /\ UNCHANGED encVars


\* do_on_command_complete with the clamp of OCR0A / OCR0B left out
do_on_command_complete_no_clamp ==
    /\ pc = "complete"
    /\ setpoint' = [m \in Motors |-> 0]
    /\ pid_accumulated' =
         [m \in Motors |-> PID_ClearAccumulatedValues(pid_accumulated[m])]
    /\ Goto("clr_run")
    /\ UNCHANGED << g_flag_pid, g_command_timer_pids, g_flag_command_received,
                    g_command_buffer, g_flag_command_running, OCR0A, OCR0B,
                    dir, RXC0, UDR0, cmd_byte, mask_tmp, tmr_rd,
                    input, n_adv >>
    /\ UNCHANGED encVars

\* main.c:883, do_on_command_complete (812-826)
do_on_command_complete ==
    /\ pc = "complete"
    /\ setpoint' = [m \in Motors |-> 0]
    /\ OCR0A' = OCR_OFF
    /\ OCR0B' = OCR_OFF
    /\ pid_accumulated' =
         [m \in Motors |-> PID_ClearAccumulatedValues(pid_accumulated[m])]
    /\ Goto("clr_run")
    /\ UNCHANGED << g_flag_pid, g_command_timer_pids, g_flag_command_received,
                    g_command_buffer, g_flag_command_running,
                    dir, RXC0, UDR0, cmd_byte, mask_tmp, tmr_rd,
                    input, n_adv >>
    /\ UNCHANGED encVars

\* main.c:884: g_flag_command_running = 0
M_clr_run ==
    /\ pc = "clr_run"
    /\ g_flag_command_running' = 0
    /\ Goto("rst_timer")
    /\ UNCHANGED << g_flag_pid, g_command_timer_pids, g_flag_command_received,
                    g_command_buffer, setpoint,
                    pid_accumulated, OCR0A, OCR0B, dir, RXC0, UDR0,
                    cmd_byte, mask_tmp, tmr_rd,
                    input, n_adv >>
    /\ UNCHANGED encVars

\* M_rst_timer with the reset of g_command_timer_pids forgotten
M_rst_timer_skipped ==
    /\ pc = "rst_timer"
    /\ Goto("enc1")
    /\ UNCHANGED << g_flag_pid, g_command_timer_pids, g_flag_command_received,
                    g_command_buffer, g_flag_command_running, setpoint,
                    pid_accumulated, OCR0A, OCR0B, dir, RXC0, UDR0,
                    cmd_byte, mask_tmp, tmr_rd, input, n_adv >>
    /\ UNCHANGED encVars

\* main.c:885: g_command_timer_pids = 0
M_rst_timer ==
    /\ pc = "rst_timer"
    /\ g_command_timer_pids' = 0
    /\ Goto("enc1")
    /\ UNCHANGED << g_flag_pid, g_flag_command_received,
                    g_command_buffer, g_flag_command_running, setpoint,
                    pid_accumulated, OCR0A, OCR0B, dir, RXC0, UDR0,
                    cmd_byte, mask_tmp, tmr_rd,
                    input, n_adv >>
    /\ UNCHANGED encVars

(***************************************************************************)
(* Interrupt handlers of the command path, each run to completion.         *)
(***************************************************************************)
\* TIMER2_COMPA_vect with the increment of g_command_timer_pids left out
TIMER2_COMPA_vect_no_count ==
    /\ ~sample_taken
    /\ sample_taken' = TRUE
    /\ g_flag_pid' = 1
    /\ UNCHANGED << g_command_timer_pids, g_flag_command_received,
                    g_command_buffer, g_flag_command_running, setpoint,
                    pid_accumulated, OCR0A, OCR0B, dir, RXC0, UDR0, pc,
                    cmd_byte, mask_tmp, tmr_rd, input, n_adv >>
    /\ UNCHANGED encVars

\* ISR(TIMER2_COMPA_vect), main.c:913-923.  The compare match comes every
\* 251 * 1024 CPU cycles (setup_pid_timer, 634-655), longer than any step of
\* the main loop: at most one is taken between two steps of main.
TIMER2_COMPA_vect ==
    /\ ~sample_taken
    /\ sample_taken' = TRUE
    /\ g_command_timer_pids' =
         (IF g_flag_command_running # 0
            THEN g_command_timer_pids + 1
            ELSE g_command_timer_pids)
    /\ g_flag_pid' = 1
    /\ UNCHANGED << g_flag_command_received, g_command_buffer,
                    g_flag_command_running, setpoint, pid_accumulated,
                    OCR0A, OCR0B, dir, RXC0, UDR0, pc, cmd_byte, mask_tmp,
                    tmr_rd,
                    input, n_adv >>
    /\ UNCHANGED encVars

\* the receiver has shifted in a byte of the set bytes: RXC0 is set, UDR0
\* holds the byte
receive(bytes) ==
    /\ ~RXC0
    /\ \E b \in bytes : UDR0' = b
    /\ RXC0' = TRUE
    /\ UNCHANGED << g_flag_pid, g_command_timer_pids, g_flag_command_received,
                    g_command_buffer, g_flag_command_running, setpoint,
                    pid_accumulated, OCR0A, OCR0B, dir, pc, cmd_byte,
                    mask_tmp, tmr_rd, sample_taken,
                    input, n_adv >>
    /\ UNCHANGED encVars

USART_receive == receive(RxBytes)

\* USART_RX_vect without the !g_flag_command_running test
USART_RX_vect_no_running_test ==
    /\ RXC0
    /\ g_command_buffer' = ToInt8(UDR0)
    /\ g_flag_command_received' = 1
    /\ RXC0' = FALSE
    /\ UDR0' = 0
    /\ UNCHANGED << g_flag_pid, g_command_timer_pids,
                    g_flag_command_running, setpoint, pid_accumulated,
                    OCR0A, OCR0B, dir, pc, cmd_byte, mask_tmp, tmr_rd,
                    sample_taken,
                    input, n_adv >>
    /\ UNCHANGED encVars

\* USART_RX_vect that accepts the byte but raises no flag while running
USART_RX_vect_buffers_while_running ==
    /\ RXC0
    /\ g_command_buffer' = ToInt8(UDR0)
    /\ g_flag_command_received' =
         (IF g_flag_command_running = 0 THEN 1 ELSE g_flag_command_received)
    /\ RXC0' = FALSE
    /\ UDR0' = 0
    /\ UNCHANGED << g_flag_pid, g_command_timer_pids,
                    g_flag_command_running, setpoint, pid_accumulated,
                    OCR0A, OCR0B, dir, pc, cmd_byte, mask_tmp, tmr_rd,
                    sample_taken,
                    input, n_adv >>
    /\ UNCHANGED encVars

\* USART_RX_vect that raises the flag for a byte it drops while running
USART_RX_vect_flags_while_running ==
    /\ RXC0
    /\ g_command_buffer' =
         (IF g_flag_command_running = 0 THEN ToInt8(UDR0) ELSE g_command_buffer)
    /\ g_flag_command_received' = 1
    /\ RXC0' = FALSE
    /\ UDR0' = 0
    /\ UNCHANGED << g_flag_pid, g_command_timer_pids,
                    g_flag_command_running, setpoint, pid_accumulated,
                    OCR0A, OCR0B, dir, pc, cmd_byte, mask_tmp, tmr_rd,
                    sample_taken, input, n_adv >>
    /\ UNCHANGED encVars

\* ISR(USART_RX_vect), main.c:925-938.  Reading UDR0 clears RXC0.
USART_RX_vect ==
    /\ RXC0
    /\ IF g_flag_command_running = 0
         THEN /\ g_command_buffer' = ToInt8(UDR0)
              /\ g_flag_command_received' = 1
         ELSE UNCHANGED << g_command_buffer, g_flag_command_received >>
    /\ RXC0' = FALSE
    /\ UDR0' = 0
    /\ UNCHANGED << g_flag_pid, g_command_timer_pids,
                    g_flag_command_running, setpoint, pid_accumulated,
                    OCR0A, OCR0B, dir, pc, cmd_byte, mask_tmp, tmr_rd,
                    sample_taken,
                    input, n_adv >>
    /\ UNCHANGED encVars

Next ==
    \/ \E m \in Motors : M_enc_chk(m)
    \/ M_pid_chk
    \/ do_advance_pids
    \/ M_pid_clr
    \/ M_cmd_chk
    \/ P_read
    \/ P_mask
    \/ P_switch
    \/ P_run
    \/ M_cmd_clr
    \/ M_done_chk
    \/ M_done_rd2
    \/ do_on_command_complete
    \/ M_clr_run
    \/ M_rst_timer
    \/ TIMER2_COMPA_vect
    \/ USART_receive
    \/ USART_RX_vect

Spec == Init /\ [][Next]_vars



(***************************************************************************)
(* RPS estimator, do_update_rps (main.c:596-632)                           *)
(***************************************************************************)
\* main.c:606-613: the uint32_t tick interval, converted to float 'ticks'
TicksOf(timer, buffered) ==
    ToFloat(IF Lt32(timer, buffered)
              THEN Add32(timer, Sub32(UINT32_MAX, buffered))
              ELSE Sub32(timer, buffered))

\* F_CPU / PULSES_PER_ROTATION in fixed point, rounded down
RpsOfOneTick ==
    (F_CPU \div PULSES_PER_ROTATION) * FixOne
      + ((F_CPU % PULSES_PER_ROTATION) * FixOne) \div PULSES_PER_ROTATION

\* main.c:621: new_rps = F_CPU / (ticks * PULSES_PER_ROTATION), in fixed
\* point, rounded down; below one fixed-point unit from ticks = 2^31 on
NewRps(t) ==
    IF t[1] >= 32768
      THEN 0
      ELSE RpsOfOneTick \div (t[1] * 65536 + t[2])

\* main.c:624: new_rps < RPS_UPPER_DISCARD_LIMIT
BelowDiscardLimit(t) ==
    t[1] >= 1 \/ F_CPU < RPS_UPPER_DISCARD_LIMIT * t[2] * PULSES_PER_ROTATION

\* FilteredRps with the upper discard limit of line 624 left out
FilteredRps_no_upper_limit(old, t) ==
    IF t = <<0, 0>>
      THEN old
      ELSE (RPS_ALPHA_NUM * old + (RPS_ALPHA_DEN - RPS_ALPHA_NUM) * NewRps(t))
             \div RPS_ALPHA_DEN

\* FilteredRps weighting the old value with 0.75 instead of RPS_ALPHA
FilteredRps_heavier_filter(old, t) ==
    IF t = <<0, 0>> \/ ~BelowDiscardLimit(t)
      THEN old
      ELSE (3 * old + NewRps(t)) \div 4

\* main.c:616-628: the filtered value after one call
FilteredRps(old, t) ==
    IF t = <<0, 0>> \/ ~BelowDiscardLimit(t)
      THEN old
      ELSE (RPS_ALPHA_NUM * old + (RPS_ALPHA_DEN - RPS_ALPHA_NUM) * NewRps(t))
             \div RPS_ALPHA_DEN

\* main.c:858 / 864, do_update_rps entered: the comparison of line 606
\* loads the two latch fields one after the other, in either order, and the
\* pulse-edge interrupts stay enabled in between
U_read(m) ==
    /\ pc = (IF m = 1 THEN "rps1" ELSE "rps2")
    /\ \E f \in {"timer_value", "buffered_timer_value"} :
         enc_rd' = << f, IF f = "timer_value" THEN timer_value[m]
                                              ELSE buffered_timer_value[m] >>
    /\ Goto(IF m = 1 THEN "upd1" ELSE "upd2")
    /\ UNCHANGED << g_flag_pid, g_command_timer_pids, g_flag_command_received,
                    g_command_buffer, g_flag_command_running, setpoint,
                    pid_accumulated, OCR0A, OCR0B, dir, RXC0, UDR0,
                    cmd_byte, mask_tmp, tmr_rd, input, n_adv >>
    /\ UNCHANGED << pulse_tick_counter_high_nibble, timer_value,
                    buffered_timer_value, current_rps, is_measurement_ready,
                    TCNT1, TOV1, INTF, ticks >>

\* the latch fields as do_update_rps has loaded them once the second is read
TimerValueAsRead(m) ==
    IF enc_rd[1] = "timer_value" THEN enc_rd[2] ELSE timer_value[m]

BufferedAsRead(m) ==
    IF enc_rd[1] = "buffered_timer_value" THEN enc_rd[2]
                                          ELSE buffered_timer_value[m]

\* do_update_rps, main.c:606-631: the second field is loaded, the interval
\* and the filtered value are computed
do_update_rps(m) ==
    /\ pc = (IF m = 1 THEN "upd1" ELSE "upd2")
    /\ ticks' = TicksOf(TimerValueAsRead(m), BufferedAsRead(m))
    /\ current_rps' = [current_rps EXCEPT ![m] = FilteredRps(@, ticks')]
    /\ enc_rd' = <<>>
    /\ Goto(IF m = 1 THEN "clr1" ELSE "clr2")
    /\ UNCHANGED << g_flag_pid, g_command_timer_pids, g_flag_command_received,
                    g_command_buffer, g_flag_command_running, setpoint,
                    pid_accumulated, OCR0A, OCR0B, dir, RXC0, UDR0,
                    cmd_byte, mask_tmp, tmr_rd,
                    input, n_adv >>
    /\ UNCHANGED << pulse_tick_counter_high_nibble, timer_value,
                    buffered_timer_value, is_measurement_ready,
                    TCNT1, TOV1, INTF >>

\* main.c:859 / 865: g_motor_N.hall_encoder.is_measurement_ready = 0
M_enc_clr(m) ==
    /\ pc = (IF m = 1 THEN "clr1" ELSE "clr2")
    /\ is_measurement_ready' = [is_measurement_ready EXCEPT ![m] = 0]
    /\ Goto(IF m = 1 THEN "enc2" ELSE "pid_chk")
    /\ UNCHANGED << g_flag_pid, g_command_timer_pids, g_flag_command_received,
                    g_command_buffer, g_flag_command_running, setpoint,
                    pid_accumulated, OCR0A, OCR0B, dir, RXC0, UDR0,
                    cmd_byte, mask_tmp, tmr_rd,
                    input, n_adv >>
    /\ UNCHANGED << pulse_tick_counter_high_nibble, timer_value,
                    buffered_timer_value, current_rps, TCNT1, TOV1, INTF,
                    ticks, enc_rd >>

(***************************************************************************)
(* SpecRps: the estimator applied to latched tick pairs.  The latches of   *)
(* each motor are drawn from 32-bit values around 0, 2^24 and 2^32.        *)
(***************************************************************************)
LatchValues ==
    { <<0, 0>>, <<0, 16>>, <<0, 1000>>, <<0, 7000>>, <<1, 0>>,
      <<256, 1>>, <<65535, 65280>>, <<65535, 65535>> }

InitRps ==
    /\ InitCmd
    /\ pulse_tick_counter_high_nibble = 0
    /\ timer_value \in [Motors -> LatchValues]
    /\ buffered_timer_value \in [Motors -> LatchValues]
    /\ current_rps \in [Motors -> {0, 5 * FixOne}]
    /\ is_measurement_ready = [m \in Motors |-> 1]
    /\ TCNT1 = 0
    /\ TOV1 = FALSE
    /\ INTF = [m \in Motors |-> FALSE]
    /\ ticks = <<0, 0>>
    /\ enc_rd = <<>>

NextRps ==
    \/ \E m \in Motors : M_enc_chk(m)
    \/ \E m \in Motors : U_read(m)
    \/ \E m \in Motors : do_update_rps(m)
    \/ \E m \in Motors : M_enc_clr(m)

SpecRps == InitRps /\ [][NextRps]_vars

(***************************************************************************)
(* Tick extension: TIMER1 free-running at F_CPU, its overflow interrupt,   *)
(* and the two pulse-edge interrupts.                                      *)
(***************************************************************************)
\* counter values the model stops at
TcntPoints == {0, 1, 32768, 65535}
\* number of the last high-nibble value (counted from 0) the model lets
\* TIMER1 wrap into
MaxHigh == 1

encUnchangedCmd ==
    UNCHANGED << g_flag_pid, g_command_timer_pids, g_flag_command_received,
                 g_command_buffer, g_flag_command_running, setpoint,
                 pid_accumulated, OCR0A, OCR0B, dir, RXC0, UDR0,
                 pc, cmd_byte, mask_tmp, tmr_rd, sample_taken,
                    input, n_adv >>

\* TIMER1 counts up (enable_pulse_tick_timer, main.c:583-592)
TIMER1_count ==
    /\ \E v \in TcntPoints : v > TCNT1 /\ TCNT1' = v
    /\ encUnchangedCmd
    /\ UNCHANGED << pulse_tick_counter_high_nibble, timer_value,
                    buffered_timer_value, current_rps, is_measurement_ready,
                    TOV1, INTF, ticks, enc_rd >>

\* TIMER1 wraps from 0xFFFF to 0 and raises TOV1.  The overflow handler is
\* served long before the next wrap, 65536 cycles later.
TIMER1_wrap ==
    /\ TCNT1 = 65535
    /\ ~TOV1
    /\ pulse_tick_counter_high_nibble >= 65534
         \/ pulse_tick_counter_high_nibble < MaxHigh
    /\ TCNT1' = 0
    /\ TOV1' = TRUE
    /\ encUnchangedCmd
    /\ UNCHANGED << pulse_tick_counter_high_nibble, timer_value,
                    buffered_timer_value, current_rps, is_measurement_ready,
                    INTF, ticks, enc_rd >>

\* a rising edge on PD2 (m = 1) or PD3 (m = 2) raises INTF0 / INTF1
\* (enable_encoder_interrupt, main.c:529-566)
Hall_edge(m) ==
    /\ ~INTF[m]
    /\ INTF' = [INTF EXCEPT ![m] = TRUE]
    /\ encUnchangedCmd
    /\ UNCHANGED << pulse_tick_counter_high_nibble, timer_value,
                    buffered_timer_value, current_rps, is_measurement_ready,
                    TCNT1, TOV1, ticks, enc_rd >>

\* hall_encoder_do_save_timer_value (main.c:345-362): the value latched
hall_encoder_do_save_timer_value(m) ==
    /\ buffered_timer_value' = [buffered_timer_value EXCEPT ![m] = timer_value[m]]
    /\ timer_value' = [timer_value EXCEPT
                         ![m] = << pulse_tick_counter_high_nibble, TCNT1 >>]
    /\ is_measurement_ready' = [is_measurement_ready EXCEPT ![m] = 1]

\* ISR(INT0_vect) (m = 1), ISR(INT1_vect) (m = 2), main.c:898-906.  Of the
\* pending interrupts the one with the lowest vector is served: INT0, INT1,
\* then TIMER1_OVF.
INT_vect(m) ==
    /\ INTF[m]
    /\ \A k \in Motors : k < m => ~INTF[k]
    /\ INTF' = [INTF EXCEPT ![m] = FALSE]
    /\ hall_encoder_do_save_timer_value(m)
    /\ encUnchangedCmd
    /\ UNCHANGED << pulse_tick_counter_high_nibble, current_rps,
                    TCNT1, TOV1, ticks, enc_rd >>

\* ISR(TIMER1_OVF_vect), main.c:908-911
TIMER1_OVF_vect ==
    /\ TOV1
    /\ \A k \in Motors : ~INTF[k]
    /\ TOV1' = FALSE
    /\ pulse_tick_counter_high_nibble' = U16(pulse_tick_counter_high_nibble + 1)
    /\ encUnchangedCmd
    /\ UNCHANGED << timer_value, buffered_timer_value, current_rps,
                    is_measurement_ready, TCNT1, INTF, ticks, enc_rd >>

\* The tick counter starts at 0 after reset, or is taken up shortly before
\* the high nibble itself wraps, each motor latched one TIMER1 period apart.
InitTick ==
    /\ InitCmd
    /\ \E h \in {0, 65534} :
         /\ pulse_tick_counter_high_nibble = h
         /\ timer_value = [m \in Motors |-> <<h, 0>>]
         /\ buffered_timer_value =
              [m \in Motors |-> IF h = 0 THEN <<0, 0>> ELSE <<h - 1, 0>>]
         /\ TCNT1 = (IF h = 0 THEN 0 ELSE 1)
    /\ current_rps = [m \in Motors |-> 0]
    /\ is_measurement_ready = [m \in Motors |-> 0]
    /\ TOV1 = FALSE
    /\ INTF = [m \in Motors |-> FALSE]
    /\ ticks = <<0, 0>>
    /\ enc_rd = <<>>

NextTick ==
    \/ TIMER1_count
    \/ TIMER1_wrap
    \/ \E m \in Motors : Hall_edge(m)
    \/ \E m \in Motors : INT_vect(m)
    \/ TIMER1_OVF_vect

SpecTick == InitTick /\ [][NextTick]_vars

(***************************************************************************)
(* SpecLive: the command path and the pulse-edge interrupt of motor 1,     *)
(* with the main loop always taking its next step (while (1), main.c:854)  *)
(* and TIMER2 free-running with its compare-match interrupt enabled        *)
(* (setup_pid_timer, enable_pid_timer, main.c:634-691).                    *)
(***************************************************************************)
MainStep ==
    \/ \E m \in Motors : M_enc_chk(m)
    \/ M_pid_chk
    \/ do_advance_pids
    \/ M_pid_clr
    \/ M_cmd_chk
    \/ P_read
    \/ P_mask
    \/ P_switch
    \/ P_run
    \/ M_cmd_clr
    \/ M_done_chk
    \/ M_done_rd2
    \/ do_on_command_complete
    \/ M_clr_run
    \/ U_read(1)
    \/ do_update_rps(1)
    \/ M_enc_clr(1)
    \/ M_rst_timer

\* the serial line delivers 'w'
LiveBytes == {119}

NextLive ==
    \/ MainStep
    \/ TIMER2_COMPA_vect
    \/ receive(LiveBytes)
    \/ Hall_edge(1)
    \/ INT_vect(1)
    \/ USART_RX_vect

SpecLive ==
    /\ Init
    /\ [][NextLive]_vars
    /\ WF_vars(MainStep)
    /\ WF_vars(TIMER2_COMPA_vect)

(***************************************************************************)
(* SpecEma: motor 1 turns at a constant speed from reset on.  A pulse edge *)
(* arrives one interval after the last latch, and the main loop consumes   *)
(* each measurement before the next edge, so the estimator is fed the same *)
(* raw value on every update.                                              *)
(***************************************************************************)
\* pulse intervals in ticks: 7000, 20000, 65306, 165536, 1000000
EmaIntervals ==
    { <<0, 7000>>, <<0, 20000>>, <<0, 65306>>, <<2, 34464>>, <<15, 16960>> }
\* number of pulses of a run
MaxUpdates == 8

IntOf(x) == x[1] * 65536 + x[2]

\* interval between the last two latches of motor 1
EmaInterval == Sub32(timer_value[1], buffered_timer_value[1])
\* number of latches of motor 1 since reset
EmaUpdates ==
    IF timer_value[1] = <<0, 0>>
      THEN 0
      ELSE IntOf(timer_value[1]) \div IntOf(EmaInterval)

\* TIMER1 counts one pulse interval on from the last latch, every overflow
\* served by ISR(TIMER1_OVF_vect) (main.c:583-592, 908-911)
TIMER1_elapse ==
    /\ << pulse_tick_counter_high_nibble, TCNT1 >> = timer_value[1]
    /\ is_measurement_ready[1] = 0
    /\ ~INTF[1]
    /\ EmaUpdates < MaxUpdates
    /\ \E t \in EmaIntervals :
         /\ timer_value[1] # <<0, 0>> => t = EmaInterval
         /\ pulse_tick_counter_high_nibble' = Add32(timer_value[1], t)[1]
         /\ TCNT1' = Add32(timer_value[1], t)[2]
    /\ encUnchangedCmd
    /\ UNCHANGED << timer_value, buffered_timer_value, current_rps,
                    is_measurement_ready, TOV1, INTF, ticks, enc_rd >>

\* the pulse edge of motor 1 at the end of the interval
Hall_edge_on_time ==
    /\ << pulse_tick_counter_high_nibble, TCNT1 >> # timer_value[1]
    /\ Hall_edge(1)

NextEma ==
    \/ TIMER1_elapse
    \/ Hall_edge_on_time
    \/ INT_vect(1)
    \/ \E m \in Motors : M_enc_chk(m)
    \/ U_read(1)
    \/ do_update_rps(1)
    \/ M_enc_clr(1)
    \/ M_pid_chk
    \/ M_cmd_chk
    \/ M_done_chk

SpecEma == Init /\ [][NextEma]_vars

(***************************************************************************)
(* SpecEnc: the main loop's encoder steps with the pulse-edge interrupt of *)
(* motor 1 enabled throughout, TIMER1 counting from reset.  Successive     *)
(* pulse edges are at least one tick apart.                                *)
(***************************************************************************)
NextEnc ==
    \/ TIMER1_count
    \/ Hall_edge_on_time
    \/ INT_vect(1)
    \/ \E m \in Motors : M_enc_chk(m)
    \/ U_read(1)
    \/ do_update_rps(1)
    \/ M_enc_clr(1)
    \/ M_pid_chk
    \/ M_cmd_chk
    \/ M_done_chk

SpecEnc == Init /\ [][NextEnc]_vars

(***************************************************************************)
(* SpecDuty: do_advance_pids with the PI controllers returning every duty  *)
(* cycle of calculate_oc_value_from_dc's input range, in a Running state   *)
(* whose sample interrupt has been seen by the main loop.                  *)
(***************************************************************************)
DutyCycles == 0 .. 100

InitDuty ==
    /\ InitEnc
    /\ g_flag_pid = 1
    /\ g_command_timer_pids = 1
    /\ g_flag_command_received = 0
    /\ g_command_buffer = 119
    /\ g_flag_command_running = 1
    /\ setpoint = [m \in Motors |-> motor_on_rps * FixOne]
    /\ pid_accumulated = [m \in Motors |-> FALSE]
    /\ OCR0A = 0
    /\ OCR0B = 0
    /\ dir = <<1, 0, 0, 1>>
    /\ RXC0 = FALSE
    /\ UDR0 = 0
    /\ pc = "pid_adv"
    /\ cmd_byte = <<>>
    /\ mask_tmp = 0
    /\ tmr_rd = <<>>
    /\ input = <<0, 0>>
    /\ n_adv = 0
    /\ sample_taken = FALSE

NextDuty ==
    \/ advance_pids(DutyCycles)
    \/ M_pid_clr

SpecDuty == InitDuty /\ [][NextDuty]_vars

(***************************************************************************)
(* Properties of the command state machine (Spec)                          *)
(***************************************************************************)
OnSpeed == motor_on_rps * FixOne
ForwardPins == <<1, 0, 0, 1>>
\* a pass of the main loop has just ended and its dispatcher classified a byte
PassDispatched == pc = "enc1" /\ cmd_byte # <<>>
\* the serial-receive handler runs in this step
RxHandled == RXC0 /\ ~RXC0'

C2_ExactDuration ==
    pc = "complete" => g_command_timer_pids = command_duration_pids

\* C3: when running has just been cleared, at least command_duration_pids
\* sample interrupts have been counted since the command started.
C3_NoEarlyTermination ==
    pc = "rst_timer" => g_command_timer_pids >= command_duration_pids

\* C4: right after running is cleared both setpoints are 0, both compare
\* registers hold 0xFF and both PI controllers are cleared; and whenever
\* running is clear outside that step the elapsed counter is 0, so it is 0
\* before the next command starts.
C4_CompletionPostState ==
    /\ pc = "rst_timer" =>
         /\ g_flag_command_running = 0
         /\ \A m \in Motors : setpoint[m] = 0 /\ ~pid_accumulated[m]
         /\ OCR0A = OCR_OFF
         /\ OCR0B = OCR_OFF
    /\ (g_flag_command_running = 0 /\ pc # "rst_timer") =>
         g_command_timer_pids = 0

C4_Witness ==
    /\ pc = "enc1"
    /\ g_flag_command_running = 0
    /\ g_command_timer_pids = 0
    /\ OCR0A = OCR_OFF
    /\ OCR0B = OCR_OFF
    /\ dir = ForwardPins
    /\ setpoint[1] = 0

\* C5: a byte the serial-receive handler takes while running is set leaves
\* the command buffer, command_ready, the setpoints, the direction pins and
\* the dispatcher's operand as they were, and is kept nowhere.
C5_CollisionDropped ==
    [][ (RxHandled /\ g_flag_command_running # 0) =>
          /\ g_command_buffer' = g_command_buffer
          /\ g_flag_command_received' = g_flag_command_received
          /\ setpoint' = setpoint
          /\ dir' = dir
          /\ cmd_byte' = cmd_byte
          /\ UDR0' = 0 ]_vars

C5_Witness ==
    /\ g_flag_command_running = 1
    /\ RXC0
    /\ UDR0 = 115
    /\ dir = ForwardPins
    /\ pc = "pid_adv"

\* C6 as claimed: a byte the serial-receive handler takes while running is
\* set goes into the buffer and sets command_ready.
C6_BufferedWhileRunning ==
    [][ (RxHandled /\ g_flag_command_running # 0) =>
          /\ g_command_buffer' = ToInt8(UDR0)
          /\ g_flag_command_received' = 1 ]_vars

\* C6 as amended: while the state is Running (running set and the
\* dispatcher's pass has cleared command_ready) no command is pending in
\* the slot: nothing received while Running is left to dispatch, neither
\* then nor after the return to Idle.
C6_NothingPendingWhileRunning ==
    (g_flag_command_running # 0 /\ pc # "cmd_clr") =>
        g_flag_command_received = 0

C6_Witness ==
    /\ g_flag_command_running = 1
    /\ g_command_timer_pids > 0
    /\ ~RXC0
    /\ g_command_buffer = 119
    /\ g_flag_command_received = 0
    /\ pc = "done_chk"

\* C7: when the dispatcher has set running, the command it started is the
\* one classified from the byte the buffer holds, the last one received.
C7_LastWriterWins ==
    (pc = "cmd_clr" /\ cmd_byte # <<>>) =>
        Classify(cmd_byte[1]) = Classify(Mask7F(g_command_buffer))

\* C8: the byte the dispatcher compares against the command letters has
\* bit 7 clear.
C8_Bit7Masked ==
    cmd_byte # <<>> => cmd_byte[1] \in 0 .. 127

\* the letters 'w', 's', 'a', 'd', 'x'
CommandLetters == {119, 115, 97, 100, 120}

C14_ControlPausedWhenIdle ==
    [][ /\ (pc = "pid_adv" /\ pc' # pc) =>
              (g_flag_pid # 0 /\ g_flag_command_running # 0)
        /\ g_flag_command_running = 0 =>
              /\ OCR0A' = OCR0A
              /\ OCR0B' = OCR0B
              /\ pid_accumulated' = pid_accumulated ]_vars

\* after a completed run a pass has skipped the control loop with the
\* tick-ready flag set
C14_Witness ==
    /\ pc = "cmd_chk"
    /\ g_flag_command_running = 0
    /\ g_flag_pid = 1
    /\ OCR0A = OCR_OFF
    /\ OCR0B = OCR_OFF
\* ISR(TIMER2_COMPA_vect) runs in this step
SampleTaken == ~sample_taken /\ sample_taken'

\* C17: whenever running goes from clear to set the elapsed counter is 0,
\* and the completion check does not fire in the pass that dispatched the
\* command; while running is set the counter changes only by +1 in a
\* sample interrupt, and while running is clear only by the reset to 0.
C17_FreshElapsedCounter ==
    [][ /\ (g_flag_command_running = 0 /\ g_flag_command_running' # 0) =>
              (g_command_timer_pids = 0 /\ g_command_timer_pids' = 0)
        /\ (pc = "done_rd2" /\ pc' = "complete") => cmd_byte = <<>>
        /\ (g_flag_command_running # 0
               /\ g_command_timer_pids' # g_command_timer_pids) =>
              (SampleTaken /\ g_command_timer_pids' = g_command_timer_pids + 1)
        /\ (g_flag_command_running = 0
               /\ g_command_timer_pids' # g_command_timer_pids) =>
              (pc = "rst_timer" /\ g_command_timer_pids' = 0) ]_vars

\* a second command has just been started, after a completed one
C17_Witness ==
    /\ pc = "cmd_clr"
    /\ cmd_byte = <<115>>
    /\ g_flag_command_running = 1
    /\ g_command_timer_pids = 0
    /\ OCR0A = OCR_OFF
    /\ OCR0B = OCR_OFF
\* C18: with the main loop and the sample interrupt both kept running, a
\* state with running set is followed by one with running clear, both
\* setpoints 0 and both compare registers at 0xFF.
C18_EveryCommandTerminates ==
    (g_flag_command_running # 0) ~>
        (/\ g_flag_command_running = 0
         /\ \A m \in Motors : setpoint[m] = 0
         /\ OCR0A = OCR_OFF
         /\ OCR0B = OCR_OFF)

\* a forward run has ended, with a pulse edge of motor 1 latched and another
\* one pending
C18_Witness ==
    /\ pc = "rst_timer"
    /\ g_flag_command_running = 0
    /\ is_measurement_ready[1] = 1
    /\ INTF[1]
    /\ dir = ForwardPins
    /\ \A m \in Motors : setpoint[m] = 0
    /\ OCR0A = OCR_OFF
    /\ OCR0B = OCR_OFF
    /\ g_command_timer_pids >= command_duration_pids
\* C19: during a Running period the number of calls of do_advance_pids
\* never exceeds the number of sample interrupts taken in that period (the
\* elapsed counter); the calls are counted up to AdvCap, so the comparison
\* is made until the elapsed counter reaches AdvCap.  A tick-ready flag
\* raised while Idle would be a call without a sample interrupt.
C19_AdvancesBoundedByTicks ==
    g_flag_command_running # 0 =>
        (n_adv <= g_command_timer_pids \/ g_command_timer_pids >= AdvCap)
\* C20: in every state with running clear, outside the completion handler
\* and the two assignments that follow it, both setpoints are 0 and both
\* compare registers hold 0xFF, from the end of setup on.
C20_OutputsOffWhenIdle ==
    (g_flag_command_running = 0
       /\ pc \notin {"complete", "clr_run", "rst_timer"}) =>
        /\ \A m \in Motors : setpoint[m] = 0
        /\ OCR0A = OCR_OFF
        /\ OCR0B = OCR_OFF
\* C21: whenever the main loop has seen command_received set and entered
\* do_parse_command, running is clear, so the early return of line 766 is
\* not taken; and command_received and running are both set only between
\* do_parse_command setting running and the main loop clearing
\* command_received in the same pass.
C21_RunningGuardNeverTaken ==
    /\ pc = "parse_rd" => g_flag_command_running = 0
    /\ (g_flag_command_received # 0 /\ g_flag_command_running # 0) =>
          (pc = "cmd_clr" /\ cmd_byte # <<>>)

\* the dispatcher is entered from Idle for a byte received after a forward
\* run has ended
C21_Witness ==
    /\ pc = "parse_rd"
    /\ g_flag_command_received = 1
    /\ g_flag_command_running = 0
    /\ g_command_buffer = ToInt8(115)
    /\ dir = ForwardPins
    /\ OCR0A = OCR_OFF

(***************************************************************************)
(* Properties of the tick extension (SpecTick) and the estimator (SpecRps) *)
(***************************************************************************)
\* C9: for each motor the latched tick values never go backwards modulo
\* 2^32: the latest latch is ahead of the one before it by less than 2^31.
C9_TickMonotonic ==
    \A m \in Motors :
        Sub32(timer_value[m], buffered_timer_value[m])[1] < 32768

\* C10: when the estimator has run on a latch with buffered_tick > raw_tick,
\* the interval it uses is raw_tick + (2^32 - buffered_tick), the modular
\* difference raw_tick - buffered_tick, as a float.
C10_WrapCorrectedDifference ==
    \A m \in Motors :
        (pc = (IF m = 1 THEN "clr1" ELSE "clr2")
           /\ Lt32(timer_value[m], buffered_timer_value[m])) =>
            ticks = ToFloat(Sub32(timer_value[m], buffered_timer_value[m]))

\* do_update_rps computes in this step, for motor m
Estimated(m) ==
    /\ pc = (IF m = 1 THEN "upd1" ELSE "upd2")
    /\ pc' = (IF m = 1 THEN "clr1" ELSE "clr2")
\* the raw value F_CPU / (t * PULSES_PER_ROTATION) of a non-zero interval t
\* exceeds the discard limit
RawRpsExceedsLimit(t) ==
    /\ t # <<0, 0>>
    /\ t[1] = 0
    /\ F_CPU > RPS_UPPER_DISCARD_LIMIT * t[2] * PULSES_PER_ROTATION

\* C11: a call of the estimator whose interval is 0, or whose raw value
\* exceeds the discard limit, leaves the filtered value and every other
\* encoder field as they were; the main loop then clears measurement_ready.
C11_GlitchDiscarded ==
    [][ \A m \in Motors :
          /\ (Estimated(m) /\ (ticks' = <<0, 0>> \/ RawRpsExceedsLimit(ticks'))) =>
                /\ current_rps' = current_rps
                /\ timer_value' = timer_value
                /\ buffered_timer_value' = buffered_timer_value
                /\ is_measurement_ready' = is_measurement_ready
          /\ (pc = (IF m = 1 THEN "clr1" ELSE "clr2") /\ pc' # pc) =>
                is_measurement_ready'[m] = 0 ]_vars

\* motor 1 discarded an interval of 1000 ticks, motor 2 one of 0 ticks
C11_Witness ==
    /\ pc = "pid_chk"
    /\ Sub32(timer_value[1], buffered_timer_value[1]) = <<0, 1000>>
    /\ timer_value[2] = buffered_timer_value[2]
    /\ ticks = <<0, 0>>
    /\ \A m \in Motors : current_rps[m] = 5 * FixOne
    /\ \A m \in Motors : is_measurement_ready[m] = 0

(***************************************************************************)
(* Properties of the duty mapping (SpecDuty)                               *)
(***************************************************************************)
\* the compare register written for PI output number i: OCR0B for motor 1,
\* OCR0A for motor 2 (main.c:728-729)
CompareOf(i) == IF i = 1 THEN OCR0B ELSE OCR0A

\* C12 as claimed: the compare value written for a duty cycle is
\* 255 * (100 - duty) / 100 rounded to the nearest integer, whatever the
\* rule for ties.
C12_RoundedCompare ==
    pc = "pid_clr" =>
        \A i \in 1 .. 2 :
            /\ 100 * CompareOf(i) - 255 * (100 - input[i]) <= 50
            /\ 255 * (100 - input[i]) - 100 * CompareOf(i) <= 50

\* C12 as amended: the compare value written for a duty cycle is
\* 255 * (100 - duty) / 100 rounded down, a byte: duty 0 gives 255, duty
\* 100 gives 0 and duty 50 gives 127.
C12_TruncatedCompare ==
    pc = "pid_clr" =>
        \A i \in 1 .. 2 :
            /\ CompareOf(i) \in 0 .. 255
            /\ 100 * CompareOf(i) <= 255 * (100 - input[i])
            /\ 255 * (100 - input[i]) < 100 * (CompareOf(i) + 1)
            /\ input[i] = 0 => CompareOf(i) = 255
            /\ input[i] = 100 => CompareOf(i) = 0
            /\ input[i] = 50 => CompareOf(i) = 127

C12_Witness ==
    /\ pc = "pid_clr"
    /\ input = <<50, 2>>
    /\ OCR0B = 127
    /\ OCR0A = 249

(***************************************************************************)
(* Properties of the filter (SpecEma)                                      *)
(***************************************************************************)
\* the raw value of the constant pulse interval
EmaRaw == NewRps(ToFloat(EmaInterval))

\* C15: fed the same accepted raw value on every update from a filtered
\* value of 0, each update moves the filtered value towards the raw value
\* and never past it, and from the 7th update on the filtered value is
\* within 1% of the raw value.
C15_EmaConverges ==
    [][ Estimated(1) =>
          /\ current_rps[1] <= current_rps'[1]
          /\ current_rps'[1] <= EmaRaw
          /\ current_rps[1] < EmaRaw - 1 => current_rps[1] < current_rps'[1]
          /\ EmaUpdates >= 7 =>
                100 * (EmaRaw - current_rps'[1]) <= EmaRaw ]_vars

\* the 7th update at one revolution per second
C15_Witness ==
    /\ pc = "clr1"
    /\ EmaInterval = <<0, 65306>>
    /\ EmaUpdates = 7
    /\ current_rps[1] < EmaRaw
    /\ 100 * (EmaRaw - current_rps[1]) <= EmaRaw
    /\ 100 * (EmaRaw - current_rps[1]) > EmaRaw \div 2

(***************************************************************************)
(* Properties of the latch hand-over (SpecEnc)                             *)
(***************************************************************************)
\* C16: the interval the estimator computes from is the one between the
\* two latest pulse-edge interrupts of the motor: the two tick values it
\* has loaded are the latch pair as it stands, also when a pulse-edge
\* interrupt was served between the two loads.
C16_IntervalOfOneLatchPair ==
    [][ Estimated(1) =>
          Sub32(TimerValueAsRead(1), BufferedAsRead(1))
            = Sub32(timer_value[1], buffered_timer_value[1]) ]_vars

====
